---- MODULE Spec2Model ----
(***************************************************************************)
(* Position exit engine of the median-regression bot.                      *)
(*                                                                         *)
(* Two poll loops are modelled, each from its own source file:             *)
(*   median_regression.py  main_loop + listen_for_input   (Spec, one       *)
(*                         position; SpecMulti, several positions;         *)
(*                         SpecQuit, with the quit command)                *)
(*   autosell.py           the module-level main loop     (SpecAS)         *)
(* SpecWindow feeds one ticker's price window of either script with any    *)
(* run of bids.                                                            *)
(* SpecStops calls should_execute_stop, the same in both scripts, on a     *)
(* table of bids, entry prices and hold times.                             *)
(* SpecReopen follows main_loop for one iteration more on a market whose   *)
(* bid stays at 0.30.                                                      *)
(*                                                                         *)
(* Prices are integers in mills (0.001 $): 0.35 $ = 350.  Percentages and  *)
(* ratios of the source's float arithmetic are compared exactly by cross   *)
(* multiplication; the modelled quotes stay away from the places where     *)
(* binary floating point rounds a comparison the other way.  Times are     *)
(* whole seconds.                                                          *)
(***************************************************************************)
EXTENDS Integers, Sequences, FiniteSets, TLC

(* ------------------------------ bounds -------------------------------- *)
\* number of iterations of `while True` explored
MaxCycles == 3

\* the venue's portfolio, in the order get_positions() lists it
Portfolio == <<"T1", "T2">>
Tickers == {Portfolio[i] : i \in 1..Len(Portfolio)}
\* pos.position, 0 = closed
ShareCounts(ticker) == IF ticker = Portfolio[1] THEN {0, 1, 2} ELSE {0, 1}
\* pos.market_exposure, in cents: the first ticker's cost basis varies, the
\* second one's is steady
Costs(ticker) == IF ticker = Portfolio[1] THEN {20, 95, 100} ELSE {100}
\* market.yes_bid_dollars, in mills: the first ticker's quote moves, the
\* second one's is steady
Bids(ticker) == IF ticker = Portfolio[1] THEN {200, 300, 950} ELSE {300}
\* seconds between two readings of time.time() at the top of a cycle
Deltas == {2, 2700}

\* bids appended to a price window taken on its own, and how many of them
WindowBids == {0, 200, 300, 320}
MaxObservations == 5

\* the inputs should_execute_stop is evaluated on, taken on its own: bids and
\* entry prices in mills, hold times in seconds
StopBids == <<340, 360, 450, 495, 500, 510, 880, 900, 950, 990, 1020, 1100>>
StopEntries == <<0, 380, 400, 500, 1000>>
StopHolds == <<0, 29, 30, 1799, 1800, 2699, 2700>>

\* the same for autosell.py, whose entry price needs several shares
ASShareCounts(ticker) == IF ticker = Portfolio[1] THEN {0, 4} ELSE {0, 4}
ASCosts(ticker) == IF ticker = Portfolio[1] THEN {104, 200} ELSE {400}
ASBids(ticker) == IF ticker = Portfolio[1] THEN {5, 300, 535, 560} ELSE {300}

(* ------------------------ program constants --------------------------- *)
\* window lengths, scaled down: MR_WINDOW (default 15) and the literal 15 of
\* autosell.py
ROLLING_WINDOW == 3
PRICE_HISTORY_LEN == 3
DEVIATION_THRESHOLD_PCT == 5
MIN_HOLD_TIME == 30
STOP_LOSS_PERCENT == 10
STOP_LOSS_FLOOR == 350
MAX_LOSS_PER_TRADE == 12
TIME_BASED_STOP_LOSS == 2700
BREAK_EVEN_TIMER == 1800
TRAILING_TIER_1 == 30
TRAILING_TIER_2 == 20
TRAILING_TIER_3 == 10
TRAILING_TIER_4 == 5

(* --------------------------- arithmetic ------------------------------- *)
Max(a, b) == IF a >= b THEN a ELSE b

Abs(a) == IF a < 0 THEN 0 - a ELSE a

RECURSIVE GCD(_, _)
GCD(a, b) == IF b = 0 THEN Abs(a) ELSE GCD(b, a % b)

RECURSIVE SumSeq(_)
SumSeq(s) == IF s = <<>> THEN 0 ELSE Head(s) + SumSeq(Tail(s))

RECURSIVE SumSq(_)
SumSq(s) == IF s = <<>> THEN 0 ELSE Head(s) * Head(s) + SumSq(Tail(s))

RECURSIVE GcdSeq(_)
GcdSeq(s) == IF s = <<>> THEN 0 ELSE GCD(Head(s), GcdSeq(Tail(s)))

\* insertion of x into an ascending sequence
RECURSIVE Insert(_, _)
Insert(x, s) ==
    IF s = <<>> THEN <<x>>
    ELSE IF x <= Head(s) THEN <<x>> \o s
    ELSE <<Head(s)>> \o Insert(x, Tail(s))

RECURSIVE Sorted(_)
Sorted(s) == IF s = <<>> THEN <<>> ELSE Insert(Head(s), Sorted(Tail(s)))

\* dict helpers
Put(d, k, v) == [x \in DOMAIN d \cup {k} |-> IF x = k THEN v ELSE d[x]]

Del(d, k) == [x \in DOMAIN d \ {k} |-> d[x]]

(* ------------------------- pure functions ----------------------------- *)
\* entry = cost / shares / 100 dollars (cost in cents), here in mills.
\* The modelled costs are multiples of the share counts, so this is exact.
Entry(cost, shares) == IF shares > 0 THEN (cost * 10) \div shares ELSE 0

\* faulty variants of the window and of the variance: no capacity, and the
\* subtraction the wrong way round
Append_unbounded(q, x) == q \o <<x>>

CV2NumSwapped(prices) ==
    LET n == Len(prices)
        S == SumSeq(prices)
    IN IF S > 0 THEN n * (S * S - n * SumSq(prices)) ELSE 0

\* deque(maxlen=ROLLING_WINDOW).append
Append_deque(q, x) ==
    IF Len(q) >= ROLLING_WINDOW THEN Tail(q) \o <<x>> ELSE q \o <<x>>

\* autosell.py: price_history[ticker].append(current_bid), then pop(0) when
\* the list is longer than PRICE_HISTORY_LEN
Append_list(q, x) ==
    IF Len(q) + 1 > PRICE_HISTORY_LEN THEN Tail(q \o <<x>>) ELSE q \o <<x>>

\* twice statistics.median of a non-empty list
Median2(prices) ==
    LET s == Sorted(prices)
        n == Len(s)
    IN IF n % 2 = 1 THEN 2 * s[(n + 1) \div 2]
       ELSE s[n \div 2] + s[n \div 2 + 1]

\* a faulty variant of Med2: the median of however few samples there are
Med2Early(prices, current) == Median2(prices)

\* twice `med`: the window's median from 3 samples on, else the current bid
Med2(prices, current) ==
    IF Len(prices) >= 3 THEN Median2(prices) ELSE 2 * current

\* dev_pct = N / D with D > 0; 0.0 when med = 0
DevNum(prices, current) ==
    LET m2 == Med2(prices, current)
    IN IF m2 # 0 THEN (2 * current - m2) * 100 ELSE 0

DevDen(prices, current) ==
    LET m2 == Med2(prices, current)
    IN IF m2 # 0 THEN m2 ELSE 1

\* the square of the coefficient of variation stdev(prices) / mean as the
\* fraction VarNum / VarDen, stdev being statistics.stdev (divisor n - 1):
\*   stdev^2 / mean^2 = n (n Q - S^2) / ((n - 1) S^2)
\* 0 when the mean is not positive
CV2Num(prices) ==
    LET n == Len(prices)
        S == SumSeq(prices)
    IN IF S > 0 THEN n * (n * SumSq(prices) - S * S) ELSE 0

CV2Den(prices) ==
    LET n == Len(prices)
        S == SumSeq(prices)
    IN IF S > 0 THEN (n - 1) * S * S ELSE 1

\* dev_pct >= calculate_dynamic_threshold(prices)
\* fewer than 3 prices: the threshold is the base threshold.
\* otherwise threshold = base * (1 + cv), and with x = dev/base - 1:
\*   dev >= threshold  <=>  x >= cv  <=>  x >= 0 and x^2 >= cv^2
\* The comparison does not change when every price is divided by a common
\* factor, which keeps the products small.
DevReachesThreshold(prices, current) ==
    LET g0 == GCD(GcdSeq(prices), current)
        g == IF g0 = 0 THEN 1 ELSE g0
        p == [i \in 1..Len(prices) |-> prices[i] \div g]
        c == current \div g
        dn == DevNum(p, c)
        dd == DevDen(p, c)
    IN IF Len(p) < 3
       THEN dn >= DEVIATION_THRESHOLD_PCT * dd
       ELSE LET xn0 == dn - DEVIATION_THRESHOLD_PCT * dd
                xd0 == DEVIATION_THRESHOLD_PCT * dd
                gx == GCD(xn0, xd0)
                xn == xn0 \div gx
                xd == xd0 \div gx
                vn0 == CV2Num(p)
                vd0 == CV2Den(p)
                gv == GCD(vn0, vd0)
                vn == vn0 \div gv
                vd == vd0 \div gv
            IN xn0 >= 0 /\ xn * xn * vd >= vn * xd * xd

\* pnl = ((current - entry) / entry * 100) if entry > 0 else 0, as N / D
PnlNum(current, entry) == IF entry > 0 THEN (current - entry) * 100 ELSE 0

PnlDen(entry) == IF entry > 0 THEN entry ELSE 1

\* 100 * calculate_stop_loss(entry, current_bid)
calculate_stop_loss(entry, current_bid) ==
    Max(entry * (100 - STOP_LOSS_PERCENT), STOP_LOSS_FLOOR * 100)

\* should_execute_stop with the break-even test moved before the time-based one
should_execute_stop_even_first(ticker, current_bid, entry, hold_time) ==
    LET stop_price == calculate_stop_loss(entry, current_bid)
        pn == PnlNum(current_bid, entry)
        pd == PnlDen(entry)
    IN IF hold_time < MIN_HOLD_TIME THEN "None"
       ELSE IF current_bid * 100 <= stop_price THEN "StopLoss"
       ELSE IF pn <= (0 - MAX_LOSS_PER_TRADE) * pd THEN "MaxLoss"
       ELSE IF hold_time >= BREAK_EVEN_TIMER /\ pn >= (0 - 2) * pd /\ pn <= 3 * pd
            THEN "BreakEven"
       ELSE IF hold_time >= TIME_BASED_STOP_LOSS /\ pn < 0 THEN "TimeStop"
       ELSE "None"

\* should_execute_stop: the reason of the first matching rule, or "None"
should_execute_stop(ticker, current_bid, entry, hold_time) ==
    LET stop_price == calculate_stop_loss(entry, current_bid)
        pn == PnlNum(current_bid, entry)
        pd == PnlDen(entry)
    IN IF hold_time < MIN_HOLD_TIME THEN "None"
       ELSE IF current_bid * 100 <= stop_price THEN "StopLoss"
       ELSE IF pn <= (0 - MAX_LOSS_PER_TRADE) * pd THEN "MaxLoss"
       ELSE IF hold_time >= TIME_BASED_STOP_LOSS /\ pn < 0 THEN "TimeStop"
       ELSE IF hold_time >= BREAK_EVEN_TIMER /\ pn >= (0 - 2) * pd /\ pn <= 3 * pd
            THEN "BreakEven"
       ELSE "None"


(* ------------- median_regression.py: state of the program ------------- *)
Keys == {<<t, n>> : t \in Tickers, n \in {1, 2}}

ASKeys == {<<t, n>> : t \in Tickers, n \in {4}}

ASNoLoc == [ticker |-> "", shares |-> 0, current_bid |-> 0, entry |-> 0, hold_time |-> 0,
            tier_level |-> 0, leash |-> 0, tier_before |-> 0,
            peak |-> 0]

Reasons == {"Manual", "MedianReversion", "StopLoss", "MaxLoss", "TimeStop", "BreakEven"}

\* the loop body's locals before the first position of a run is fetched
NoLoc == [ticker |-> "", shares |-> 0, current |-> 0, entry |-> 0, hold_sec |-> 0,
          dev_ok |-> FALSE, sold |-> FALSE, flag_seen |-> FALSE, was_sold |-> FALSE,
          failed_before |-> FALSE, was_known |-> FALSE, admitted |-> FALSE,
          announced |-> FALSE]

VARIABLES
    client,                 \* TRUE: KalshiClient was built at import; FALSE: client is None
    pc,                     \* position of main_loop
    cycle,                  \* iterations of `while True` started so far
    now,                    \* time.time() read at the top of the cycle
    all_pos,                \* resp.market_positions of this cycle
    idx,                    \* index in all_pos of the position being processed
    loc,                    \* locals of the loop body for that position; flag_seen is
                            \* the manual flag as line 661 read it, was_sold whether
                            \* the key was in sold_positions when the quote was fetched,
                            \* failed_before whether the key was in unfilled then
    price_hist,             \* dict ticker -> deque(maxlen=ROLLING_WINDOW)
    entry_times,            \* dict ticker -> first-observation time
    highest_prices,         \* dict ticker -> peak bid
    known_positions,        \* set of position keys already announced
    sold_positions,         \* set of position keys sold by this run
    closed_after_sale,      \* the sold keys whose ticker the venue has since reported
                            \* with no shares
    manual_sell_requested,  \* global flag shared with listen_for_input
    listener,               \* the input thread: "running", or "stopped" once
                            \* listen_for_input has left its loop
    calls,                  \* execute_order calls made for the position being processed
    orders,                 \* key -> number of execute_order calls that returned True
    trade_log,              \* key -> number of records log_trade appended
    unfilled,               \* keys whose latest processing called execute_order and
                            \* got False from every call
    cyc,                    \* ticker -> what this cycle did with it
    applied_before          \* the pending manual command was applied in an earlier cycle

\* autosell.py
VARIABLES
    as_pc,                  \* position of the main loop
    as_cycle,               \* iterations of `while True` started so far
    current_time,           \* time.time() read at the top of the cycle
    all_raw,                \* market_positions + event_positions of this cycle
    as_idx,                 \* index in all_raw of the position being processed
    as_loc,                 \* locals of the loop body for that position
    POSITION_ENTRY_TIMES,   \* dict ticker -> first-observation time
    as_highest_prices,      \* dict ticker -> peak bid
    last_shares,            \* dict ticker -> share count last seen
    as_known_positions,     \* set of position keys announced and not sold
    as_calls,               \* execute_order calls made for the position being processed
    as_orders,              \* key -> number of execute_order calls that returned True
    as_trade_log,           \* key -> number of records log_trade appended
    as_first_entry,         \* key -> entry price computed the first time the key was
                            \* processed, 0 before that
    as_new_position_log,    \* key -> number of records log_new_position appended
    as_tier_seen,           \* ticker -> tier_level of the last cycle that rated it
    as_since_change,        \* ticker -> share count the venue reported last and the
                            \* highest bid quoted since that count was first reported
    as_outcome              \* how the last try block ended: "none", "ended", "aborted",
                            \* "interrupted"

\* one ticker's price window on its own, fed with any run of bids
VARIABLES
    w_prices,               \* median_regression.py: price_hist[ticker]
    w_history,              \* autosell.py: price_history[ticker]
    w_observed              \* every bid appended since the window was created

as_vars == <<as_pc, as_cycle, current_time, all_raw, as_idx, as_loc,
             POSITION_ENTRY_TIMES, as_highest_prices, last_shares,
             as_known_positions, as_calls, as_orders, as_trade_log, as_first_entry,
             as_new_position_log, as_tier_seen, as_since_change, as_outcome>>

mr_vars == <<client, listener, pc, cycle, now, all_pos, idx, loc, price_hist, entry_times,
          highest_prices, known_positions, sold_positions, manual_sell_requested,
          calls, orders, trade_log, unfilled, cyc, applied_before, closed_after_sale>>

\* should_execute_stop on its own, called on one input after the other
VARIABLES
    st_idx,                 \* number of inputs evaluated so far
    st_in,                  \* arguments of the last call
    st_decision,            \* what the last call returned
    st_returned,            \* every decision returned so far
    st_past_stop            \* TRUE once a call had hold_time >= 30, entry > 0, the bid
                            \* above the stop price and pnl <= -12 %

st_vars == <<st_idx, st_in, st_decision, st_returned, st_past_stop>>

fn_vars == <<w_prices, w_history, w_observed, st_vars>>

vars == <<mr_vars, as_vars, fn_vars>>

trackers == <<price_hist, entry_times, highest_prices, known_positions>>

books == <<sold_positions, orders, trade_log, unfilled, closed_after_sale>>

position_key(l) == <<l.ticker, l.shares>>

\* the reports get_positions() can return, each position with its share
\* count.  A position's cost basis (market_exposure) is read only when the
\* loop body processes that position, and is drawn there.
\* Reports: the account holds the first ticker alone.
Reports ==
    {<<[ticker |-> Portfolio[1], position |-> n]>> : n \in ShareCounts(Portfolio[1])}

\* MultiReports: the account holds every ticker of the portfolio, the first
\* one open
MultiReports ==
    {r \in [1..Len(Portfolio) -> [ticker : Tickers, position : {0, 1}]] :
        \A i \in 1..Len(Portfolio) :
            /\ r[i].ticker = Portfolio[i]
            /\ r[i].position \in ShareCounts(r[i].ticker)
            /\ (i = 1 => r[i].position > 0)}

Init ==
    /\ client \in BOOLEAN
    /\ pc = "idle"
    /\ cycle = 0
    /\ now = 0
    /\ all_pos = <<>>
    /\ idx = 0
    /\ loc = NoLoc
    /\ price_hist = <<>>
    /\ entry_times = <<>>
    /\ highest_prices = <<>>
    /\ known_positions = {}
    /\ sold_positions = {}
    /\ closed_after_sale = {}
    /\ manual_sell_requested = FALSE
    /\ listener = "running"
    /\ calls = <<>>
    /\ orders = [k \in Keys |-> 0]
    /\ trade_log = [k \in Keys |-> 0]
    /\ unfilled = {}
    /\ cyc = <<>>
    /\ applied_before = FALSE
    /\ as_pc = "idle"
    /\ as_cycle = 0
    /\ current_time = 0
    /\ all_raw = <<>>
    /\ as_idx = 0
    /\ as_loc = ASNoLoc
    /\ POSITION_ENTRY_TIMES = <<>>
    /\ as_highest_prices = <<>>
    /\ last_shares = <<>>
    /\ as_known_positions = {}
    /\ as_calls = <<>>
    /\ as_orders = [k \in ASKeys |-> 0]
    /\ as_trade_log = [k \in ASKeys |-> 0]
    /\ as_first_entry = [k \in ASKeys |-> 0]
    /\ as_new_position_log = [k \in ASKeys |-> 0]
    /\ as_tier_seen = <<>>
    /\ as_since_change = <<>>
    /\ as_outcome = "none"
    /\ w_prices = <<>>
    /\ w_history = <<>>
    /\ w_observed = <<>>
    /\ st_idx = 0
    /\ st_in = [current_bid |-> 0, entry |-> 0, hold_time |-> 0]
    /\ st_decision = "None"
    /\ st_returned = {}
    /\ st_past_stop = FALSE


(* ---------------- median_regression.py: listen_for_input -------------- *)
\* 's': manual_sell_requested = True
PressS ==
    /\ listener = "running"
    /\ manual_sell_requested' = TRUE
    /\ applied_before' = (manual_sell_requested /\ applied_before)
    /\ UNCHANGED <<client, listener, pc, cycle, now, all_pos, idx, loc, trackers, books,
                   calls, cyc>>
    /\ UNCHANGED <<as_vars, fn_vars>>

\* 'q' (or end of input): break.  The thread ends; nothing else is told.
PressQ ==
    /\ listener = "running"
    /\ listener' = "stopped"
    /\ UNCHANGED <<client, pc, cycle, now, all_pos, idx, loc, trackers, books,
                   manual_sell_requested, calls, cyc, applied_before>>
    /\ UNCHANGED <<as_vars, fn_vars>>

(* -------------------- median_regression.py: main_loop ----------------- *)
\* client is None: sleep 5 and continue
NoClient ==
    /\ pc = "idle"
    /\ ~client
    /\ cycle < MaxCycles
    /\ cycle' = cycle + 1
    /\ UNCHANGED <<client, listener, pc, now, all_pos, idx, loc, trackers, books,
                   manual_sell_requested, calls, cyc, applied_before>>
    /\ UNCHANGED <<as_vars, fn_vars>>

\* a faulty variant of BeginCycle: the test of `client is None` is missing
BeginCycleUnguarded(report) ==
    /\ pc = "idle"
    /\ cycle < MaxCycles
    /\ cycle' = cycle + 1
    /\ \E d \in Deltas : now' = now + d
    /\ all_pos' = report
    /\ idx' = 1
    /\ pc' = "fetch"
    /\ UNCHANGED <<client, listener, loc, trackers, books, manual_sell_requested, calls, cyc,
                   applied_before>>
    /\ UNCHANGED <<as_vars, fn_vars>>

\* client.get_positions() answers with `report`; now = time.time().  At most
\* `bound` iterations of the loop are explored.
BeginCycleWithin(report, bound) ==
    /\ pc = "idle"
    /\ client
    /\ cycle < bound
    /\ cycle' = cycle + 1
    /\ \E d \in Deltas : now' = now + d
    /\ all_pos' = report
    /\ idx' = 1
    /\ pc' = "fetch"
    /\ UNCHANGED <<client, listener, loc, trackers, books, manual_sell_requested, calls, cyc,
                   applied_before>>
    /\ UNCHANGED <<as_vars, fn_vars>>

BeginCycle(report) == BeginCycleWithin(report, MaxCycles)

StartCycle == \E report \in Reports : BeginCycle(report)

StartCycleMulti == \E report \in MultiReports : BeginCycle(report)

\* what `except Exception` leaves behind: nothing is reset, the loop sleeps
\* 1 s and starts over.  A manual command applied in the aborted cycle and
\* still pending has then been applied in an earlier cycle.  The cycle's
\* locals are dead.
Aborted ==
    /\ pc' = "idle"
    /\ applied_before' =
          (manual_sell_requested /\
             (applied_before \/ \E t \in DOMAIN cyc : cyc[t] = "applied"))
    /\ all_pos' = <<>>
    /\ idx' = 0
    /\ cyc' = <<>>
    /\ UNCHANGED <<client, listener, now, loc, trackers, books, manual_sell_requested, calls>>

\* client.get_positions() raises
PositionsFail ==
    /\ pc = "idle"
    /\ client
    /\ cycle < MaxCycles
    /\ cycle' = cycle + 1
    /\ Aborted
    /\ UNCHANGED <<as_vars, fn_vars>>

\* shares <= 0: continue
SkipClosed ==
    /\ pc = "fetch"
    /\ idx <= Len(all_pos)
    /\ all_pos[idx].position <= 0
    /\ idx' = idx + 1
    /\ closed_after_sale' =
          closed_after_sale \cup {k \in sold_positions : k[1] = all_pos[idx].ticker}
    /\ UNCHANGED <<client, listener, pc, cycle, now, all_pos, loc, trackers,
                   sold_positions, orders, trade_log, unfilled,
                   manual_sell_requested, calls, cyc, applied_before>>
    /\ UNCHANGED <<as_vars, fn_vars>>

\* client.get_market(ticker) raises: the exception leaves the for loop
QuoteFail ==
    /\ pc = "fetch"
    /\ idx <= Len(all_pos)
    /\ all_pos[idx].position > 0
    /\ Aborted
    /\ UNCHANGED cycle
    /\ UNCHANGED <<as_vars, fn_vars>>

\* faulty variants of the guards below (a membership test inverted, a test
\* of the sold set left out, the key added outside the `if`); the confirmed
\* properties are checked to fail under them
ManualGuardInverted(flag, key, sp) == flag /\ key \in sp

ManualGuardAnyKey(flag, key, sp) == flag

StopsGuardOpen(key, sp) == TRUE

SoldAfterAlways(sp, key, ok) == sp \cup {key}

\* if manual_sell_requested and position_key not in sold_positions
ManualGuard(flag, key, sp) == flag /\ key \notin sp

\* a faulty variant of MedianGuard: the test of pnl is dropped
MedianGuardAnyPnl(sold, key, sp, dev_ok, current, entry) ==
    ~sold /\ key \notin sp /\ dev_ok

\* if not sold and position_key not in sold_positions
\*    and dev_pct >= dynamic_threshold and pnl > 0
MedianGuard(sold, key, sp, dev_ok, current, entry) ==
    ~sold /\ key \notin sp /\ dev_ok /\ PnlNum(current, entry) > 0

\* if position_key not in sold_positions: should_stop, stop_reason = ...
StopsGuard(key, sp) == key \notin sp

\* sold_positions after execute_order returned ok for key
SoldAfter(sp, key, ok) == IF ok THEN sp \cup {key} ELSE sp

\* a faulty variant of Logged: the record is written whatever execute_order
\* returned
LoggedAlways(ok) == IF ok THEN 1 ELSE 1

\* records log_trade appends after execute_order returned ok
Logged(ok) == IF ok THEN 1 ELSE 0

\* one exit rule: when its condition `go` holds it calls execute_order, which
\* returns ok; on True the trade is logged, the key joins sold_positions and
\* sold = True.  st is the calls made so far, the local `sold`,
\* sold_positions, the trade records appended and which rules called.
Rule(st, key, go, reason, ok) ==
    IF go
    THEN [calls |-> Append(st.calls, [reason |-> reason, ok |-> ok]),
          sold |-> st.sold \/ ok,
          sold_positions |-> SoldAfter(st.sold_positions, key, ok),
          logged |-> st.logged + Logged(ok),
          asked |-> Append(st.asked, TRUE)]
    ELSE [st EXCEPT !.asked = Append(st.asked, FALSE)]

\* the three exit rules in the order of the loop body, lines 656-683:
\* ok1, ok2, ok3 are what execute_order returns to the manual override, to
\* the median-reversion rule and to the safety stops when they call it
RunRules(l, flag, sp, ok1, ok2, ok3) ==
    LET key == position_key(l)
        s0 == [calls |-> <<>>, sold |-> FALSE, sold_positions |-> sp, logged |-> 0,
               asked |-> <<>>]
        s1 == Rule(s0, key, ManualGuard(flag, key, sp), "Manual", ok1)
        s2 == Rule(s1, key,
                   MedianGuard(s1.sold, key, s1.sold_positions, l.dev_ok, l.current,
                               l.entry),
                   "MedianReversion", ok2)
        stop_reason == should_execute_stop(l.ticker, l.current, l.entry, l.hold_sec)
    IN Rule(s2, key, StopsGuard(key, s2.sold_positions) /\ stop_reason # "None",
            stop_reason, ok3)

\* a faulty variant of track_peak: the peak follows the bid
track_latest(peaks, ticker, current) == current

\* if ticker not in highest_prices: highest_prices[ticker] = current
\* if current > highest_prices[ticker]: highest_prices[ticker] = current
track_peak(peaks, ticker, current) ==
    IF ticker \notin DOMAIN peaks THEN current
    ELSE IF current > peaks[ticker] THEN current
    ELSE peaks[ticker]

\* a faulty variant of Discover: a key the filters reject is not made known
DiscoverAdmittedOnly(known, key, admitted) ==
    [known |-> IF admitted THEN known \cup {key} ELSE known,
     announced |-> key \notin known /\ admitted]

\* if position_key not in known_positions: the key is made known whatever
\* is_market_active_for_entry and is_market_liquid answer (admitted: both
\* True); log_new_position is called only when they admit the market
Discover(known, key, admitted) ==
    [known |-> known \cup {key},
     announced |-> key \notin known /\ admitted]

\* execute_order: False when client is None, else whether the venue took
\* the order (venue_ok; any exception of get_market or create_order is False)
execute_order(venue_ok) == client /\ venue_ok

\* the number of calls of execute_order that returned True
Successes(cs) == Cardinality({i \in 1..Len(cs) : cs[i].ok})

\* client.get_market(ticker) answers: tracking is initialised and updated,
\* the statistics of the position are computed, the key is made known, and
\* the exit rules run.  The listener's flag is read once, by the manual
\* override; nothing else in the body depends on the other thread.
ProcessPosition ==
    /\ pc = "fetch"
    /\ idx <= Len(all_pos)
    /\ all_pos[idx].position > 0
    /\ \E current \in Bids(all_pos[idx].ticker), cost \in Costs(all_pos[idx].ticker) :
        LET ticker == all_pos[idx].ticker
            shares == all_pos[idx].position
            key == <<ticker, shares>>
            since == IF ticker \in DOMAIN entry_times THEN entry_times[ticker] ELSE now
        IN \E hist \in {Append_deque(IF ticker \in DOMAIN price_hist
                                     THEN price_hist[ticker] ELSE <<>>, current)} :
           \* the admission filters are asked about a key not known yet
           \E admitted \in (IF key \in known_positions THEN {FALSE} ELSE BOOLEAN) :
           \E l \in {[ticker |-> ticker, shares |-> shares, current |-> current,
                      entry |-> Entry(cost, shares), hold_sec |-> now - since,
                      dev_ok |-> DevReachesThreshold(hist, current),
                      sold |-> FALSE, flag_seen |-> manual_sell_requested,
                      was_sold |-> key \in sold_positions,
                      failed_before |-> key \in unfilled,
                      was_known |-> key \in known_positions,
                      admitted |-> admitted,
                      announced |-> Discover(known_positions, key, admitted).announced]} :
           \E ok1, ok2, ok3 \in BOOLEAN :
           \E r \in {RunRules(l, manual_sell_requested, sold_positions,
                             execute_order(ok1), execute_order(ok2), execute_order(ok3))} :
              \* execute_order returns nothing to a rule that does not call it
              /\ \A i \in 1..3 : ~r.asked[i] => ~(<<ok1, ok2, ok3>>[i])
              /\ price_hist' = Put(price_hist, ticker, hist)
              /\ entry_times' = Put(entry_times, ticker, since)
              /\ highest_prices' =
                    Put(highest_prices, ticker, track_peak(highest_prices, ticker, current))
              /\ known_positions' = Discover(known_positions, key, admitted).known
              /\ loc' = [l EXCEPT !.sold = r.sold]
              /\ calls' = r.calls
              /\ sold_positions' = r.sold_positions
              /\ UNCHANGED closed_after_sale
              /\ orders' = [orders EXCEPT ![key] = @ + Successes(r.calls)]
              /\ trade_log' = [trade_log EXCEPT ![key] = @ + r.logged]
              /\ unfilled' = IF r.calls # <<>> /\ Successes(r.calls) = 0
                             THEN unfilled \cup {key} ELSE unfilled \ {key}
              /\ cyc' = Put(cyc, ticker,
                            IF r.asked[1] THEN "applied"
                            ELSE IF key \in sold_positions THEN "excluded"
                            ELSE "skipped")
    /\ pc' = "commit"
    /\ UNCHANGED <<client, listener, cycle, now, all_pos, idx, manual_sell_requested,
                   applied_before>>
    /\ UNCHANGED <<as_vars, fn_vars>>

\* the tracking state a sale removes: price_hist and entry_times of the ticker
ForgetSold(sold, d, ticker) == IF sold THEN Del(d, ticker) ELSE d

\* if sold: delete the tracking state and continue; else append the row.
\* The locals are dead from here until the next position overwrites them.
Commit ==
    /\ pc = "commit"
    /\ price_hist' = ForgetSold(loc.sold, price_hist, loc.ticker)
    /\ entry_times' = ForgetSold(loc.sold, entry_times, loc.ticker)
    /\ idx' = idx + 1
    /\ pc' = "fetch"
    /\ loc' = NoLoc
    /\ calls' = <<>>
    /\ UNCHANGED <<client, listener, cycle, now, all_pos, highest_prices, known_positions,
                   books, manual_sell_requested, cyc, applied_before>>
    /\ UNCHANGED <<as_vars, fn_vars>>

\* after the for loop: the dashboard is drawn, the manual flag is reset
\* (if manual_sell_requested: manual_sell_requested = False), the loop sleeps
EndCycle ==
    /\ pc = "fetch"
    /\ idx > Len(all_pos)
    /\ manual_sell_requested' = FALSE
    /\ applied_before' = FALSE
    /\ pc' = "idle"
    /\ all_pos' = <<>>
    /\ idx' = 0
    /\ cyc' = <<>>
    /\ UNCHANGED <<client, listener, cycle, now, loc, trackers, books, calls>>
    /\ UNCHANGED <<as_vars, fn_vars>>

Next ==
    \/ PressS
    \/ NoClient
    \/ StartCycle
    \/ PositionsFail
    \/ SkipClosed
    \/ QuoteFail
    \/ ProcessPosition
    \/ Commit
    \/ EndCycle

Spec == Init /\ [][Next]_vars

\* the same loop on an account that holds several positions
NextMulti ==
    \/ PressS
    \/ NoClient
    \/ StartCycleMulti
    \/ PositionsFail
    \/ SkipClosed
    \/ QuoteFail
    \/ ProcessPosition
    \/ Commit
    \/ EndCycle

SpecMulti == Init /\ [][NextMulti]_vars

\* the loop on the one-position account, with a user who may type 'q'
NextQuit == Next \/ PressQ

SpecQuit == Init /\ [][NextQuit]_vars

\* the loop followed for one iteration more, on a market whose bid stays at
\* 0.30 and whose calls of get_positions and get_market answer: long enough
\* for a position to be sold, closed, opened again and held
StartCycleReopen == \E report \in Reports : BeginCycleWithin(report, MaxCycles + 1)

ProcessAtFloor == ProcessPosition /\ loc'.current = 300

NextReopen ==
    \/ PressS
    \/ StartCycleReopen
    \/ SkipClosed
    \/ ProcessAtFloor
    \/ Commit
    \/ EndCycle

InitReopen == Init /\ client

SpecReopen == InitReopen /\ [][NextReopen]_vars

(* ------------------ median_regression.py: properties ------------------ *)
\* C1: over any run of cycles, quotes, order outcomes and manual commands,
\* execute_order returns True at most once for a position key.
AtMostOneSalePerKey == \A k \in Keys : orders[k] <= 1

\* a key that was sold is processed again while a manual command is pending,
\* and nothing is submitted for it
SoldKeySeenAgain ==
    /\ pc = "commit"
    /\ loc.was_sold
    /\ loc.flag_seen
    /\ orders[position_key(loc)] = 1
    /\ calls = <<>>

\* C3: a position held for MIN_HOLD_TIME or more, with no manual command
\* pending, that meets both the hard stop-loss condition and the
\* median-reversion condition in a cycle gets its order with the stop-loss
\* reason, never with the median-reversion reason.
StopLossBeatsMedianReversion ==
    ( /\ pc = "commit"
      /\ ~loc.flag_seen
      /\ ~loc.was_sold
      /\ loc.hold_sec >= MIN_HOLD_TIME
      /\ loc.current * 100 <= calculate_stop_loss(loc.entry, loc.current)
      /\ loc.dev_ok
      /\ PnlNum(loc.current, loc.entry) > 0 )
    => /\ calls # <<>>
       /\ \A i \in 1..Len(calls) : calls[i].reason = "StopLoss"

\* C4: with no manual command pending, no order is submitted for a position
\* in a cycle where its hold time is below MIN_HOLD_TIME.
NoOrderBeforeMinHold ==
    (pc = "commit" /\ ~loc.flag_seen /\ loc.hold_sec < MIN_HOLD_TIME) => calls = <<>>

\* C5: when the manual flag is set as a position with a key not yet sold is
\* processed, the first order submitted for it in that cycle carries the
\* manual reason, whatever the hold time and the pnl.
ManualOverrideFirst ==
    (pc = "commit" /\ loc.flag_seen /\ ~loc.was_sold)
    => (calls # <<>> /\ calls[1].reason = "Manual")

\* the manual order goes out for a position held for less than MIN_HOLD_TIME
\* at a loss
ManualOverrideEarlyAtLoss ==
    /\ pc = "commit"
    /\ loc.flag_seen
    /\ ~loc.was_sold
    /\ loc.hold_sec < MIN_HOLD_TIME
    /\ PnlNum(loc.current, loc.entry) < 0
    /\ calls # <<>>
    /\ calls[1].reason = "Manual"

\* C6: execute_order is called at most once per position per cycle.
OneSubmissionPerCycle == Len(calls) <= 1

\* C7: a manual command is applied in exactly one cycle to all the open unsold
\* positions of that cycle: the flag is cleared only when no position of the
\* cycle was processed without it, and a command applied in one cycle is not
\* applied again in a later one.
ManualCommandAppliedOnce ==
    [][ /\ (manual_sell_requested /\ ~manual_sell_requested')
            => \A t \in DOMAIN cyc : cyc[t] # "skipped"
        /\ ~(applied_before' /\ \E t \in DOMAIN cyc' : cyc'[t] = "applied") ]_vars

\* C8: when get_market raises for one position, every other open position
\* reported in that cycle is still processed in the same cycle: the cycle
\* does not end at a position leaving another open position unprocessed.
QuoteFailureSkipsOnlyThatPosition ==
    [][ (pc = "fetch" /\ idx <= Len(all_pos) /\ pc' = "idle")
        => \A i \in 1..Len(all_pos) :
              (i # idx /\ all_pos[i].position > 0) => all_pos[i].ticker \in DOMAIN cyc ]_vars

\* C9: once a key is in sold_positions, no later cycle fetches its quote,
\* updates its statistics and runs the exit rules for it.
SoldKeyNeverFetchedAgain == ~(pc = "commit" /\ loc.was_sold)

\* C11: once the listener has received 'q', the poll loop starts no new
\* cycle after finishing the current one.
QuitStopsLoop == [][(listener = "stopped" /\ pc = "idle") => cycle' = cycle]_vars

PeakNeverFalls ==
    [][ /\ \A t \in DOMAIN highest_prices :
              t \in DOMAIN highest_prices' /\ highest_prices'[t] >= highest_prices[t]
        /\ pc' = "commit" => highest_prices'[loc'.ticker] >= loc'.current ]_vars

\* a bid below the peak is processed after a sale of the ticker, and the
\* peak stays
PeakKeptAboveBid ==
    /\ pc = "commit"
    /\ loc.was_sold
    /\ loc.current < highest_prices[loc.ticker]

\* C17: in a cycle where the ticker's window holds 1 or 2 samples the median
\* is the current bid, the deviation is 0 and the median-reversion rule
\* submits nothing.
MedianNeedsThreeSamples ==
    (pc = "commit" /\ Len(price_hist[loc.ticker]) < 3)
    => /\ Med2(price_hist[loc.ticker], loc.current) = 2 * loc.current
       /\ DevNum(price_hist[loc.ticker], loc.current) = 0
       /\ ~loc.dev_ok
       /\ \A i \in 1..Len(calls) : calls[i].reason # "MedianReversion"

\* the second sample after a sale deleted the window: the bid has jumped and
\* the position is in profit, yet nothing is submitted
SecondSampleAfterSale ==
    /\ pc = "commit"
    /\ ~loc.was_sold
    /\ \E k \in Keys : k[1] = loc.ticker /\ orders[k] > 0
    /\ Len(price_hist[loc.ticker]) = 2
    /\ price_hist[loc.ticker][1] < price_hist[loc.ticker][2]
    /\ PnlNum(loc.current, loc.entry) > 0
    /\ calls = <<>>

\* C19: while client is None the loop is never anywhere but between two
\* cycles and can always start the next one, no position is fetched, no
\* order is submitted or logged, and execute_order returns False whatever
\* the venue would answer.
NoClientNoOrders ==
    ~client
    => /\ pc = "idle"
       /\ cycle < MaxCycles => ENABLED NoClient
       /\ all_pos = <<>>
       /\ calls = <<>>
       /\ price_hist = <<>>
       /\ \A k \in Keys : orders[k] = 0 /\ trade_log[k] = 0
       /\ \A venue_ok \in BOOLEAN : ~execute_order(venue_ok)

\* two cycles have passed without a client, a manual command pending
IdleWithoutClient ==
    /\ ~client
    /\ cycle >= 2
    /\ manual_sell_requested
    /\ \A k \in Keys : orders[k] = 0

\* C12: when the venue reports a ticker with zero shares, the step that
\* skips it removes the ticker's entry time, price history and peak, and
\* submits and logs nothing.
ZeroSharesEvictsTracking ==
    [][ (pc = "fetch" /\ idx <= Len(all_pos) /\ all_pos[idx].position = 0
            /\ idx' = idx + 1)
        => /\ all_pos[idx].ticker \notin
                 (DOMAIN entry_times' \cup DOMAIN price_hist' \cup DOMAIN highest_prices')
           /\ orders' = orders
           /\ trade_log' = trade_log ]_vars

\* C13: when a tracked ticker is reported with a share count that gives a
\* key not seen before, the position is handled as a new one: its entry time
\* is the time of this cycle, so its hold time is 0, and its peak is the
\* current bid.
ShareChangeStartsAfresh ==
    [][ (pc = "fetch" /\ pc' = "commit" /\ loc'.ticker \in DOMAIN entry_times
            /\ position_key(loc') \notin known_positions)
        => /\ loc'.hold_sec = 0
           /\ entry_times'[loc'.ticker] = now
           /\ highest_prices'[loc'.ticker] = loc'.current ]_vars


\* an order with the median-reversion reason was submitted for the position
\* being processed
MedianAsked == \E i \in 1..Len(calls) : calls[i].reason = "MedianReversion"

\* C26: every order submitted with the median-reversion reason is issued in
\* a cycle where pnl > 0 (the bid is above a positive entry price), the
\* price window holds at least 3 samples and the deviation of the bid from
\* the window's median reaches the dynamic threshold of that cycle.
MedianOrderNeedsProfitAndDeviation ==
    (pc = "commit" /\ MedianAsked)
    => /\ loc.entry > 0
       /\ loc.current > loc.entry
       /\ Len(price_hist[loc.ticker]) >= 3
       /\ DevReachesThreshold(price_hist[loc.ticker], loc.current)
       /\ 2 * loc.current > Median2(price_hist[loc.ticker])

\* a median-reversion order on a full window, the position in profit
MedianOrderSubmitted ==
    /\ pc = "commit"
    /\ MedianAsked
    /\ Len(price_hist[loc.ticker]) = 3
    /\ loc.current > loc.entry

\* what execute_order returned to the rule that submits with one of `reasons`
Answered(cs, reasons) == \E i \in 1..Len(cs) : cs[i].reason \in reasons /\ cs[i].ok

SoldKeyTrackingStaysRemoved ==
    (pc = "commit" /\ loc.was_sold)
    => /\ loc.ticker \notin DOMAIN entry_times
       /\ loc.ticker \notin DOMAIN price_hist

\* C32: sold_positions only grows, and once a key is in it no rule (manual,
\* median reversion, safety stop) calls execute_order for that key again,
\* also after the position was closed and opened again with the same ticker
\* and share count and meets a stop-loss condition.
SoldKeyNeverOfferedAgain ==
    [][ /\ sold_positions \subseteq sold_positions'
        /\ (pc = "fetch" /\ pc' = "commit" /\ position_key(loc') \in sold_positions)
              => (calls' = <<>> /\ orders' = orders) ]_vars

\* a key sold, reported with no shares, reported again with the same share
\* count, held for 30 s at a bid under the stop price, the manual command
\* pending: nothing is submitted
ReopenedKeyLeftAlone ==
    /\ pc = "commit"
    /\ position_key(loc) \in closed_after_sale
    /\ loc.hold_sec >= MIN_HOLD_TIME
    /\ loc.current * 100 <= calculate_stop_loss(loc.entry, loc.current)
    /\ loc.flag_seen
    /\ calls = <<>>

(* ------------------------------ autosell.py --------------------------- *)
\* entry = (cost / shares) / 100 if cost > 100 else (cost / shares), in mills
ASEntry(cost, shares) ==
    IF cost > 100 THEN (cost * 10) \div shares ELSE (cost * 1000) \div shares

\* get_trailing_stop with its tests in rising order, so the first tier swallows all
get_trailing_stop_rising(pnl_num, pnl_den, peak) ==
    IF pnl_num >= 5 * pnl_den THEN [leash |-> TRAILING_TIER_1, tier_level |-> 1]
    ELSE IF pnl_num >= 10 * pnl_den THEN [leash |-> TRAILING_TIER_2, tier_level |-> 2]
    ELSE IF pnl_num >= 20 * pnl_den THEN [leash |-> TRAILING_TIER_3, tier_level |-> 3]
    ELSE IF pnl_num >= 30 * pnl_den THEN [leash |-> TRAILING_TIER_4, tier_level |-> 4]
    ELSE [leash |-> 0, tier_level |-> 0]

\* get_trailing_stop(pnl_percent, peak): the leash in mills and the tier;
\* tier_level 0 stands for the leash None
get_trailing_stop(pnl_num, pnl_den, peak) ==
    IF pnl_num >= 30 * pnl_den THEN [leash |-> TRAILING_TIER_4, tier_level |-> 4]
    ELSE IF pnl_num >= 20 * pnl_den THEN [leash |-> TRAILING_TIER_3, tier_level |-> 3]
    ELSE IF pnl_num >= 10 * pnl_den THEN [leash |-> TRAILING_TIER_2, tier_level |-> 2]
    ELSE IF pnl_num >= 5 * pnl_den THEN [leash |-> TRAILING_TIER_1, tier_level |-> 1]
    ELSE [leash |-> 0, tier_level |-> 0]

\* the venue's report of a ticker, as an observer of the run keeps it: the
\* share count reported and the highest bid quoted since the count last changed
Reported(seen, ticker, shares, current_bid) ==
    Put(seen, ticker,
        [shares |-> shares,
         high |-> IF ticker \in DOMAIN seen /\ seen[ticker].shares = shares
                  THEN Max(seen[ticker].high, current_bid) ELSE current_bid])

ASReports ==
    {r \in [1..Len(Portfolio) -> [ticker : Tickers, position : {0, 4}]] :
        \A i \in 1..Len(Portfolio) :
            /\ r[i].ticker = Portfolio[i]
            /\ r[i].position \in ASShareCounts(r[i].ticker)}

\* client.get_positions() answers; current_time = time.time()
ASStartCycle ==
    /\ as_pc = "idle"
    /\ as_cycle < MaxCycles
    /\ as_cycle' = as_cycle + 1
    /\ \E d \in Deltas : current_time' = current_time + d
    /\ \E r \in ASReports : all_raw' = r
    /\ as_idx' = 1
    /\ as_pc' = "fetch"
    /\ UNCHANGED <<as_loc, POSITION_ENTRY_TIMES, as_highest_prices, last_shares,
                   as_known_positions, as_calls, as_orders, as_trade_log, as_first_entry,
                   as_new_position_log, as_tier_seen, as_since_change, as_outcome>>
    /\ UNCHANGED <<mr_vars, fn_vars>>

\* a faulty variant of ASAborted: the exception leaves the loop
ASAbortedFatal ==
    /\ as_pc' = "stopped"
    /\ all_raw' = <<>>
    /\ as_idx' = 0
    /\ as_outcome' = "aborted"
    /\ UNCHANGED <<current_time, as_loc, POSITION_ENTRY_TIMES, as_highest_prices,
                   last_shares, as_known_positions, as_calls, as_orders, as_trade_log,
                   as_first_entry, as_new_position_log, as_tier_seen, as_since_change>>

\* `except Exception`: the error is printed, the loop sleeps 5 s and starts over
ASAborted ==
    /\ as_pc' = "idle"
    /\ all_raw' = <<>>
    /\ as_idx' = 0
    /\ as_outcome' = "aborted"
    /\ UNCHANGED <<current_time, as_loc, POSITION_ENTRY_TIMES, as_highest_prices,
                   last_shares, as_known_positions, as_calls, as_orders, as_trade_log,
                   as_first_entry, as_new_position_log, as_tier_seen, as_since_change>>

\* client.get_positions() raises
ASPositionsFail ==
    /\ as_pc = "idle"
    /\ as_cycle < MaxCycles
    /\ as_cycle' = as_cycle + 1
    /\ ASAborted
    /\ UNCHANGED <<mr_vars, fn_vars>>

\* if shares <= 0: continue
ASSkipClosed ==
    /\ as_pc = "fetch"
    /\ as_idx <= Len(all_raw)
    /\ all_raw[as_idx].position <= 0
    /\ as_idx' = as_idx + 1
    /\ as_since_change' = Reported(as_since_change, all_raw[as_idx].ticker, 0, 0)
    /\ UNCHANGED <<as_pc, as_cycle, current_time, all_raw, as_loc,
                   POSITION_ENTRY_TIMES, as_highest_prices, last_shares,
                   as_known_positions, as_calls, as_orders, as_trade_log, as_first_entry,
                   as_new_position_log, as_tier_seen, as_outcome>>
    /\ UNCHANGED <<mr_vars, fn_vars>>

\* client.get_market(ticker) raises
ASQuoteFail ==
    /\ as_pc = "fetch"
    /\ as_idx <= Len(all_raw)
    /\ all_raw[as_idx].position > 0
    /\ ASAborted
    /\ UNCHANGED as_cycle
    /\ UNCHANGED <<mr_vars, fn_vars>>

\* if leash is not None: if current_bid <= (peak - leash)
TrailingGuard(trail, current_bid, peak) ==
    trail.tier_level > 0 /\ current_bid <= peak - trail.leash

\* the two exit rules in the order of the loop body, lines 398-430: the
\* tiered trailing stop, then the safety stops unless the trailing exit sold
\* (`continue`).  ok1 and ok2 are what execute_order returns to them.
ASRunRules(l, ok1, ok2) ==
    LET go1 == TrailingGuard(l, l.current_bid, l.peak)
        calls1 == IF go1 THEN <<[reason |-> "Trailing", ok |-> ok1]>> ELSE <<>>
        sold1 == go1 /\ ok1
        stop_reason == should_execute_stop(l.ticker, l.current_bid, l.entry, l.hold_time)
        go2 == ~sold1 /\ stop_reason # "None"
    IN [calls |-> IF go2 THEN Append(calls1, [reason |-> stop_reason, ok |-> ok2])
                  ELSE calls1,
        sold |-> sold1 \/ (go2 /\ ok2),
        logged |-> (IF go1 THEN Logged(ok1) ELSE 0) + (IF go2 THEN Logged(ok2) ELSE 0),
        asked |-> <<go1, go2>>]

\* what a successful sale removes: the key from known_positions and the
\* ticker from POSITION_ENTRY_TIMES
ASForgetKnown(sold, known, key) == IF sold THEN known \ {key} ELSE known

ASForgetEntry(sold, d, ticker) == IF sold THEN Del(d, ticker) ELSE d

\* if position_key not in known_positions: ... log_new_position(...)
NewPositionRecords(known, key) == IF key \notin known THEN 1 ELSE 0

\* client.get_market(ticker) answers and the loop body runs to its exit rules
ASProcessPosition ==
    /\ as_pc = "fetch"
    /\ as_idx <= Len(all_raw)
    /\ all_raw[as_idx].position > 0
    /\ \E current_bid \in ASBids(all_raw[as_idx].ticker),
          cost \in ASCosts(all_raw[as_idx].ticker) :
        LET ticker == all_raw[as_idx].ticker
            shares == all_raw[as_idx].position
            key == <<ticker, shares>>
            since == IF ticker \in DOMAIN POSITION_ENTRY_TIMES
                     THEN POSITION_ENTRY_TIMES[ticker] ELSE current_time
            fresh == ticker \notin DOMAIN last_shares \/ shares # last_shares[ticker]
            peak0 == IF fresh THEN current_bid
                     ELSE IF ticker \in DOMAIN as_highest_prices
                          THEN as_highest_prices[ticker] ELSE 0
        IN IF current_bid < 10
           THEN \* if current_bid < 0.01: continue
                /\ as_loc' = [ASNoLoc EXCEPT !.ticker = ticker, !.shares = shares,
                                             !.current_bid = current_bid]
                /\ as_calls' = <<>>
                /\ as_pc' = "commit"
                /\ as_idx' = as_idx
                /\ as_since_change' = Reported(as_since_change, ticker, shares, current_bid)
                /\ UNCHANGED <<POSITION_ENTRY_TIMES, as_highest_prices,
                               last_shares, as_known_positions, as_orders,
                               as_trade_log, as_first_entry,
                               as_new_position_log, as_tier_seen, as_outcome>>
           ELSE
             \E trail \in {get_trailing_stop(PnlNum(current_bid, ASEntry(cost, shares)),
                                             PnlDen(ASEntry(cost, shares)),
                                             Max(current_bid, peak0))} :
             \E l \in {[ticker |-> ticker, shares |-> shares, current_bid |-> current_bid,
                        entry |-> ASEntry(cost, shares), hold_time |-> current_time - since,
                        tier_level |-> trail.tier_level, leash |-> trail.leash,
                        tier_before |-> IF ticker \in DOMAIN as_tier_seen
                                        THEN as_tier_seen[ticker] ELSE 0,
                        peak |-> Max(current_bid, peak0)]} :
             \E ok1, ok2 \in BOOLEAN :
             \E r \in {ASRunRules(l, ok1, ok2)} :
                /\ (~r.asked[1] => ~ok1) /\ (~r.asked[2] => ~ok2)
                /\ POSITION_ENTRY_TIMES' =
                      ASForgetEntry(r.sold, Put(POSITION_ENTRY_TIMES, ticker, since), ticker)
                /\ last_shares' = Put(last_shares, ticker, shares)
                /\ as_highest_prices' = Put(as_highest_prices, ticker, l.peak)
                /\ as_known_positions' =
                      ASForgetKnown(r.sold, as_known_positions \cup {key}, key)
                /\ as_loc' = l
                /\ as_calls' = r.calls
                /\ as_orders' = [as_orders EXCEPT ![key] = @ + Successes(r.calls)]
                /\ as_trade_log' = [as_trade_log EXCEPT ![key] = @ + r.logged]
                /\ as_first_entry' =
                      [as_first_entry EXCEPT ![key] = IF @ = 0 THEN l.entry ELSE @]
                /\ as_new_position_log' =
                      [as_new_position_log EXCEPT
                          ![key] = @ + NewPositionRecords(as_known_positions, key)]
                /\ as_tier_seen' = Put(as_tier_seen, ticker, l.tier_level)
                /\ as_since_change' = Reported(as_since_change, ticker, shares, current_bid)
                /\ as_pc' = "commit"
                /\ as_idx' = as_idx
                /\ UNCHANGED as_outcome
    /\ UNCHANGED <<as_cycle, current_time, all_raw>>
    /\ UNCHANGED <<mr_vars, fn_vars>>

\* `continue` after a sale, or the row is appended; the locals are dead from
\* here until the next position overwrites them
ASCommit ==
    /\ as_pc = "commit"
    /\ as_idx' = as_idx + 1
    /\ as_pc' = "fetch"
    /\ as_loc' = ASNoLoc
    /\ as_calls' = <<>>
    /\ UNCHANGED <<as_cycle, current_time, all_raw, POSITION_ENTRY_TIMES,
                   as_highest_prices, last_shares, as_known_positions, as_orders,
                   as_trade_log, as_first_entry,
                   as_new_position_log, as_tier_seen, as_since_change, as_outcome>>
    /\ UNCHANGED <<mr_vars, fn_vars>>

\* after the for loop: the dashboard is drawn, the loop sleeps REFRESH_RATE
ASEndCycle ==
    /\ as_pc = "fetch"
    /\ as_idx > Len(all_raw)
    /\ as_pc' = "idle"
    /\ all_raw' = <<>>
    /\ as_idx' = 0
    /\ as_outcome' = "ended"
    /\ UNCHANGED <<as_cycle, current_time, as_loc, POSITION_ENTRY_TIMES,
                   as_highest_prices, last_shares, as_known_positions, as_calls,
                   as_orders, as_trade_log, as_first_entry,
                   as_new_position_log, as_tier_seen, as_since_change>>
    /\ UNCHANGED <<mr_vars, fn_vars>>

\* `except KeyboardInterrupt: ... break`, anywhere in the try block: the
\* loop is left and its locals are dead
ASInterrupt ==
    /\ as_pc # "stopped"
    /\ as_pc' = "stopped"
    /\ all_raw' = <<>>
    /\ as_idx' = 0
    /\ as_loc' = ASNoLoc
    /\ as_calls' = <<>>
    /\ as_outcome' = "interrupted"
    /\ UNCHANGED <<as_cycle, current_time, POSITION_ENTRY_TIMES, as_highest_prices,
                   last_shares, as_known_positions, as_orders, as_trade_log,
                   as_first_entry, as_new_position_log, as_tier_seen, as_since_change>>
    /\ UNCHANGED <<mr_vars, fn_vars>>

NextAS ==
    \/ ASInterrupt
    \/ ASStartCycle
    \/ ASPositionsFail
    \/ ASSkipClosed
    \/ ASQuoteFail
    \/ ASProcessPosition
    \/ ASCommit
    \/ ASEndCycle

InitAS == Init /\ client

SpecAS == InitAS /\ [][NextAS]_vars

(* ------------------------- the price window alone -------------------- *)
\* a bid is appended to the window of each script
Observe ==
    /\ Len(w_observed) < MaxObservations
    /\ \E current \in WindowBids :
          /\ w_prices' = Append_deque(w_prices, current)
          /\ w_history' = Append_list(w_history, current)
          /\ w_observed' = Append(w_observed, current)
    /\ UNCHANGED <<mr_vars, as_vars, st_vars>>

\* del price_hist[ticker] after a sale; the next observation creates an
\* empty window
WindowDeleted ==
    /\ w_observed # <<>>
    /\ w_prices' = <<>>
    /\ w_history' = <<>>
    /\ w_observed' = <<>>
    /\ UNCHANGED <<mr_vars, as_vars, st_vars>>

NextWindow == Observe \/ WindowDeleted

InitWindow == Init /\ client

SpecWindow == InitWindow /\ [][NextWindow]_vars

\* C16: a price history holds at most N bids and equals the last min(N, k)
\* of the k bids observed since it was created, in arrival order; appending
\* to a full window drops the oldest bid.
WindowHoldsLatestBids ==
    LET k == Len(w_observed)
        n == IF k < ROLLING_WINDOW THEN k ELSE ROLLING_WINDOW
        m == IF k < PRICE_HISTORY_LEN THEN k ELSE PRICE_HISTORY_LEN
    IN /\ Len(w_prices) <= ROLLING_WINDOW
       /\ w_prices = SubSeq(w_observed, k - n + 1, k)
       /\ Len(w_history) <= PRICE_HISTORY_LEN
       /\ w_history = SubSeq(w_observed, k - m + 1, k)

\* more bids than the window holds were observed and the oldest one is gone
OldestBidDropped ==
    /\ Len(w_observed) > ROLLING_WINDOW
    /\ Len(w_prices) = ROLLING_WINDOW
    /\ w_prices[1] # w_observed[1]
    /\ w_prices[ROLLING_WINDOW] = w_observed[Len(w_observed)]

\* C18: for every window of non-negative prices the dynamic threshold is at
\* least the base threshold: the squared coefficient of variation that
\* scales it is a non-negative fraction, and a deviation that reaches the
\* dynamic threshold reaches DEVIATION_THRESHOLD_PCT; with fewer than 3
\* prices the threshold is the base threshold itself.
ThresholdAtLeastBase ==
    w_prices # <<>> =>
      LET current == w_prices[Len(w_prices)]
          base_reached == DevNum(w_prices, current)
                             >= DEVIATION_THRESHOLD_PCT * DevDen(w_prices, current)
      IN /\ Len(w_prices) >= 3 => CV2Num(w_prices) >= 0 /\ CV2Den(w_prices) > 0
         /\ DevReachesThreshold(w_prices, current) => base_reached
         /\ Len(w_prices) < 3 => (DevReachesThreshold(w_prices, current) <=> base_reached)

\* a full window of moving prices: the threshold is widened, and a deviation
\* above the base threshold does not reach it
ThresholdWidened ==
    /\ Len(w_prices) >= 3
    /\ CV2Num(w_prices) > 0
    /\ LET current == w_prices[Len(w_prices)]
       IN /\ DevNum(w_prices, current)
                >= DEVIATION_THRESHOLD_PCT * DevDen(w_prices, current)
          /\ ~DevReachesThreshold(w_prices, current)

(* ------------------------ should_execute_stop alone ------------------ *)
StopGridSize == Len(StopBids) * Len(StopEntries) * Len(StopHolds)

\* the i-th input of the grid, i counted from 0
StopInput(i) ==
    [current_bid |-> StopBids[(i % Len(StopBids)) + 1],
     entry |-> StopEntries[((i \div Len(StopBids)) % Len(StopEntries)) + 1],
     hold_time |-> StopHolds[(i \div (Len(StopBids) * Len(StopEntries))) + 1]]

\* bid above calculate_stop_loss while pnl <= -MAX_LOSS_PER_TRADE * 100
PastStopPrice(in) ==
    /\ in.hold_time >= MIN_HOLD_TIME
    /\ in.entry > 0
    /\ in.current_bid * 100 > calculate_stop_loss(in.entry, in.current_bid)
    /\ PnlNum(in.current_bid, in.entry) <= (0 - MAX_LOSS_PER_TRADE) * PnlDen(in.entry)

\* should_stop, stop_reason = should_execute_stop(ticker, current_bid, entry, hold_time)
EvaluateStop ==
    /\ st_idx < StopGridSize
    /\ \E in \in {StopInput(st_idx)} :
       \E d \in {should_execute_stop("T1", in.current_bid, in.entry, in.hold_time)} :
          /\ st_in' = in
          /\ st_decision' = d
          /\ st_returned' = st_returned \cup {d}
          /\ st_past_stop' = (st_past_stop \/ PastStopPrice(in))
    /\ st_idx' = st_idx + 1
    /\ UNCHANGED <<mr_vars, as_vars, w_prices, w_history, w_observed>>

NextStops == EvaluateStop

InitStops == Init /\ client

SpecStops == InitStops /\ [][NextStops]_vars

MaxLossCatchesPastStopPrice ==
    st_idx = StopGridSize => (st_past_stop /\ "MaxLoss" \in st_returned)

(* ------------------------ autosell.py: properties --------------------- *)
\* C2: over any run of cycles and venue reports, the venue still reporting
\* the position after a sale included, a position key gets at most one
\* successful sell order.
ASAtMostOneSalePerKey == \A k \in ASKeys : as_orders[k] <= 1

\* C14: the entry price used for a key in a cycle equals the entry price
\* computed the first time the key was processed, whatever cost basis the
\* venue reports later.
EntryPriceFixedAtFirstSight ==
    as_pc = "commit" => as_loc.entry = as_first_entry[<<as_loc.ticker, as_loc.shares>>]

\* a trailing-exit order was submitted for the position being processed
TrailingAsked == \E i \in 1..Len(as_calls) : as_calls[i].reason = "Trailing"

\* C21: the tier and leash a cycle applies to a position are fixed by that
\* cycle's pnl alone (tier 4 and 0.005 from 30 %, tier 3 and 0.01 from 20 %,
\* tier 2 and 0.02 from 10 %, tier 1 and 0.03 from 5 %, none below), whatever
\* tier the ticker had in the cycle before: after a retrace to a lower tier
\* the trailing exit is asked for exactly when the bid is within the lower
\* tier's wider leash of the peak, and below 5 % it is never asked for.
TierFollowsCurrentPnl ==
    (as_pc = "commit" /\ as_loc.current_bid >= 10)
    => LET pn == PnlNum(as_loc.current_bid, as_loc.entry)
           pd == PnlDen(as_loc.entry)
           tier == IF pn >= 30 * pd THEN 4 ELSE IF pn >= 20 * pd THEN 3
                   ELSE IF pn >= 10 * pd THEN 2 ELSE IF pn >= 5 * pd THEN 1 ELSE 0
           leash == IF tier = 4 THEN 5 ELSE IF tier = 3 THEN 10
                    ELSE IF tier = 2 THEN 20 ELSE IF tier = 1 THEN 30 ELSE 0
       IN /\ as_loc.tier_level = tier
          /\ as_loc.leash = leash
          /\ tier = 0 => ~TrailingAsked
          /\ tier > 0 => (TrailingAsked <=> as_loc.current_bid <= as_loc.peak - leash)

\* pnl fell from tier 2 to tier 1 and the bid is within 0.02 of the peak
\* but not within 0.03: no trailing exit is asked for
RetraceLoosensLeash ==
    /\ as_pc = "commit"
    /\ as_loc.tier_before = 2
    /\ as_loc.tier_level = 1
    /\ as_loc.current_bid <= as_loc.peak - TRAILING_TIER_2
    /\ as_loc.current_bid > as_loc.peak - TRAILING_TIER_1
    /\ ~TrailingAsked

\* C20: during one run the discovery record of a key is appended at most
\* once, the cycles after a sale that the venue has not yet reflected included.
NewPositionLoggedOnce == \A k \in ASKeys : as_new_position_log[k] <= 1

\* C22: when a position held for at least 30 s meets in one cycle both the
\* hard stop-loss (bid <= max(0.9 * entry, 0.35)) and the trailing-stop
\* condition (a tier applies and bid <= peak - leash), the order submitted
\* carries the stop-loss reason, not the trailing-exit reason.
SafetyStopBeatsTrailing ==
    (/\ as_pc = "commit"
     /\ as_loc.hold_time >= MIN_HOLD_TIME
     /\ as_loc.current_bid * 100 <= calculate_stop_loss(as_loc.entry, as_loc.current_bid)
     /\ TrailingGuard(as_loc, as_loc.current_bid, as_loc.peak))
    => /\ as_calls # <<>>
       /\ as_calls[1].reason = "StopLoss"
       /\ ~TrailingAsked

\* C25: a trailing-stop order is submitted in a cycle exactly when pnl >= 5 %
\* and bid <= peak - leash, the leash being 0.03 for pnl in [5, 10), 0.02 in
\* [10, 20), 0.01 in [20, 30) and 0.005 from 30 %, and the peak the highest
\* bid quoted since the venue's share count of the ticker last changed, this
\* cycle's bid included; below 5 % no trailing-stop order is submitted.
TrailingExactlyWithinLeash ==
    as_pc = "commit"
    => LET pn == PnlNum(as_loc.current_bid, as_loc.entry)
           pd == PnlDen(as_loc.entry)
           leash == IF pn >= 30 * pd THEN 5 ELSE IF pn >= 20 * pd THEN 10
                    ELSE IF pn >= 10 * pd THEN 20 ELSE 30
           high == as_since_change[as_loc.ticker].high
       IN TrailingAsked <=> (pn >= 5 * pd /\ as_loc.current_bid <= high - leash)

\* C29: no failure of get_positions, get_market or create_order ends the
\* poll loop.  The loop is left only by a keyboard interrupt; after a cycle
\* that an exception aborted the loop is back at its head and a new cycle
\* can start, and while a cycle runs, a failed order included, its next
\* step can be taken.
LoopEndsOnlyOnInterrupt ==
    /\ as_pc \in {"idle", "fetch", "commit", "stopped"}
    /\ as_pc = "stopped" <=> as_outcome = "interrupted"
    /\ (as_pc = "idle" /\ as_cycle < MaxCycles) => ENABLED ASStartCycle
    /\ as_pc = "fetch" => ENABLED (ASSkipClosed \/ ASQuoteFail \/ ASEndCycle)
    /\ as_pc = "commit" => ENABLED ASCommit

\* a cycle is running after get_market raised in the cycle before, and an
\* order of the running cycle has failed
LoopRunsAfterAbort ==
    /\ as_outcome = "aborted"
    /\ as_cycle >= 2
    /\ as_pc = "commit"
    /\ as_calls # <<>>
    /\ \A i \in 1..Len(as_calls) : ~as_calls[i].ok

\* C30: in every cycle in which the venue reports a position with shares,
\* held for at least MIN_HOLD_TIME, whose bid is at or below the floor 0.35,
\* a sell order is attempted for it, for every bid down to 0.
FloorBidAlwaysAttempted ==
    (/\ as_pc = "commit"
     /\ as_loc.shares > 0
     /\ as_loc.current_bid <= STOP_LOSS_FLOOR
     /\ as_loc.ticker \in DOMAIN POSITION_ENTRY_TIMES
     /\ current_time - POSITION_ENTRY_TIMES[as_loc.ticker] >= MIN_HOLD_TIME)
    => as_calls # <<>>

ThresholdUsesPopulationDeviation ==
    (Len(w_prices) >= 3 /\ \A i \in 1..Len(w_prices) : w_prices[i] > 0)
    => LET g == GcdSeq(w_prices)
           p == [i \in 1..Len(w_prices) |-> w_prices[i] \div g]
           n == Len(p)
           S == SumSeq(p)
       IN CV2Num(p) * (S * S) = (n * SumSq(p) - S * S) * CV2Den(p)

====
